---- MODULE Spec2Model ----
(***************************************************************************)
(* A model of robomeshcat.scene: the Scene registry of named objects and   *)
(* robots, its render() tick, the camera accessors, and AnimationContext,  *)
(* the scoped switch between live rendering and animation capture.         *)
(*                                                                         *)
(* Python's None is the empty tuple <<>>, a set reference is <<x>>.         *)
(* A dict is a sequence of [k, v] entries in insertion order.              *)
(***************************************************************************)
EXTENDS Integers, Sequences, FiniteSets, TLC

VARIABLES
    objects,                    \* Scene.objects: dict name -> Object
    robots,                     \* Scene.robots: dict name -> Robot
    camera_pose,                \* Scene.camera_pose: 4x4 matrix, rows of columns
    camera_zoom,                \* Scene.camera_zoom
    _animation,                 \* Scene._animation: None or the clip being recorded
    _animation_frame_counter,   \* Scene._animation_frame_counter: None or the next count
    vis,                        \* the remote tree: the node created at each name, or None
    q,                          \* each robot's current configuration
    pose,                       \* each object's current pose
    contexts,                   \* the AnimationContext values constructed so far
    blocks,                     \* the names of the contexts whose with-block is open, innermost last
    exc,                        \* the error in flight, "None" when there is none
    sent,                       \* what the last call emitted, in order
    added,                      \* history: names added and not removed, by the calls made
    cap,                        \* history: renders called since the open capture's entry
    lost,                       \* history: renders of the capture that the entry just made replaced
    streak                      \* history: render() calls in a row, up to two

vars == <<objects, robots, camera_pose, camera_zoom, _animation,
          _animation_frame_counter, vis, q, pose, contexts, blocks, exc,
          sent, added, cap, lost, streak>>

None == <<>>
Some(x) == <<x>>

(***************************************************************************)
(* Bounds of the exploration.                                              *)
(***************************************************************************)
MaxFrames == 2      \* render() calls explored within one capture
MaxDepth == 2       \* with-blocks explored open at once

(***************************************************************************)
(* The collaborators: Object and Robot instances, by identity.             *)
(***************************************************************************)
ObjIds == {"o1", "o2", "k1", "k2"}

ObjName(o) ==
    CASE o = "o1" -> "box"
      [] o = "o2" -> "box"
      [] o = "k1" -> "arm/l1"
      [] o = "k2" -> "arm/l2"

Names == {ObjName(o) : o \in ObjIds}

RobotIds == {"r1", "r2"}

RobotName(r) == IF r = "r1" THEN "arm" ELSE "base"

\* robot.objects.values(), in the mapping's order
RobotObjects(r) == IF r = "r1" THEN <<"k1", "k2">> ELSE <<>>

Configs == {0, 1}

Range(s) == {s[i] : i \in 1..Len(s)}

\* robot.fk(): every child's pose is recomputed from the robot's configuration
fk(p, r) ==
    [o \in ObjIds |-> IF o \in Range(RobotObjects(r)) THEN q[r] ELSE p[o]]

(***************************************************************************)
(* Python dicts.                                                           *)
(***************************************************************************)
Keys(d) == {d[i].k : i \in 1..Len(d)}

Values(d) == [i \in 1..Len(d) |-> d[i].v]

Lookup(d, key) == d[CHOOSE i \in 1..Len(d) : d[i].k = key].v

\* d[key] = val
DictSet(d, key, val) ==
    IF key \in Keys(d)
    THEN [i \in 1..Len(d) |-> IF d[i].k = key THEN [k |-> key, v |-> val] ELSE d[i]]
    ELSE Append(d, [k |-> key, v |-> val])

\* d.pop(key), for a key that is present
DictPop(d, key) == SelectSeq(d, LAMBDA e : e.k # key)

(***************************************************************************)
(* What a call emits: remote writes, console lines, fk() invocations.      *)
(***************************************************************************)
Live == <<"live">>
Frame(n) == <<"frame", n>>

Warn(msg) == [op |-> "print", msg |-> msg]
SetObject(name, o) == [op |-> "set_object", path |-> name, obj |-> o]
Delete(name) == [op |-> "delete", path |-> name]
SetTransform(tgt, path, val) ==
    [op |-> "set_transform", tgt |-> tgt, path |-> path, val |-> val]
SetProperty(tgt, path, prop, type, val) ==
    [op |-> "set_property", tgt |-> tgt, path |-> path, prop |-> prop,
     type |-> type, val |-> val]
FkCall(r) == [op |-> "fk", robot |-> r]
SetAnimation(path, clip) == [op |-> "set_animation", path |-> path, clip |-> clip]

(***************************************************************************)
(* Scene.__init__                                                          *)
(***************************************************************************)
Eye4 == [i \in 1..4 |-> [j \in 1..4 |-> IF i = j THEN 1 ELSE 0]]

Init ==
    /\ objects = <<>>
    /\ robots = <<>>
    /\ camera_pose = Eye4
    /\ camera_zoom = 1
    /\ _animation = None
    /\ _animation_frame_counter = None
    /\ vis = [n \in Names |-> None]
    /\ q = [r \in RobotIds |-> 0]
    /\ pose = [o \in ObjIds |-> 0]
    /\ contexts = {}
    /\ blocks = <<>>
    /\ exc = "None"
    /\ sent = <<>>
    /\ added = Some({})
    /\ cap = None
    /\ lost = 0
    /\ streak = 0

(***************************************************************************)
(* The registry calls, as functions of the scene record                    *)
(* s = [objects, robots, animation, vis, out, err].                        *)
(***************************************************************************)
Self ==
    [objects |-> objects, robots |-> robots, animation |-> _animation,
     vis |-> vis, out |-> <<>>, err |-> "None"]

\* a variant that keeps the entry already stored under the name
add_object_keep_first(s, o, verbose) ==
    LET name == ObjName(o)
        kept == IF name \in Keys(s.objects) THEN Lookup(s.objects, name) ELSE o
    IN [s EXCEPT !.objects = DictSet(s.objects, name, kept),
                 !.vis[name] = Some(kept),
                 !.out = Append(s.out, SetObject(name, kept))]

add_object(s, o, verbose) ==
    LET name == ObjName(o)
        out1 == IF verbose /\ name \in Keys(s.objects)
                THEN Append(s.out, Warn("object replaced"))
                ELSE s.out
    IN [s EXCEPT !.objects = DictSet(s.objects, name, o),
                 !.vis[name] = Some(o),
                 !.out = Append(out1, SetObject(name, o))]

\* a variant that forgets the delete write
remove_object_no_delete(s, o, verbose) ==
    LET name == ObjName(o)
    IN IF verbose /\ s.animation # None
       THEN [s EXCEPT !.out = Append(s.out, Warn("no object removal while animating"))]
       ELSE IF name \notin Keys(s.objects)
       THEN [s EXCEPT !.err = "KeyError"]
       ELSE [s EXCEPT !.objects = DictPop(s.objects, name)]

\* a variant that passes over a missing name and deletes the node all the same
remove_object_lenient(s, o, verbose) ==
    LET name == ObjName(o)
    IN IF verbose /\ s.animation # None
       THEN [s EXCEPT !.out = Append(s.out, Warn("no object removal while animating"))]
       ELSE [s EXCEPT !.objects = DictPop(s.objects, name),
                      !.vis[name] = None,
                      !.out = Append(s.out, Delete(name))]

\* a variant without the capture guard
remove_object_unguarded(s, o, verbose) ==
    LET name == ObjName(o)
    IN IF name \notin Keys(s.objects)
       THEN [s EXCEPT !.err = "KeyError"]
       ELSE [s EXCEPT !.objects = DictPop(s.objects, name),
                      !.vis[name] = None,
                      !.out = Append(s.out, Delete(name))]

remove_object(s, o, verbose) ==
    LET name == ObjName(o)
    IN IF verbose /\ s.animation # None
       THEN [s EXCEPT !.out = Append(s.out, Warn("no object removal while animating"))]
       ELSE IF name \notin Keys(s.objects)
       THEN [s EXCEPT !.err = "KeyError"]
       ELSE [s EXCEPT !.objects = DictPop(s.objects, name),
                      !.vis[name] = None,
                      !.out = Append(s.out, Delete(name))]

\* for obj in robot.objects.values(): self.add_object(obj, verbose=verbose)
RECURSIVE add_objects(_, _, _)
add_objects(s, os, verbose) ==
    IF os = <<>> \/ s.err # "None" THEN s
    ELSE add_objects(add_object(s, Head(os), verbose), Tail(os), verbose)

\* for obj in robot.objects.values(): self.remove_object(obj, verbose=verbose)
RECURSIVE remove_objects(_, _, _)
remove_objects(s, os, verbose) ==
    IF os = <<>> \/ s.err # "None" THEN s
    ELSE remove_objects(remove_object(s, Head(os), verbose), Tail(os), verbose)

add_robot(s, r, verbose) ==
    LET name == RobotName(r)
        out1 == IF verbose /\ name \in Keys(s.robots)
                THEN Append(s.out, Warn("robot replaced"))
                ELSE s.out
    IN add_objects([s EXCEPT !.robots = DictSet(s.robots, name, r), !.out = out1],
                   RobotObjects(r), verbose)

\* a variant that unregisters the robot and leaves its children
remove_robot_only(s, r, verbose) ==
    LET name == RobotName(r)
    IN IF verbose /\ s.animation # None
       THEN [s EXCEPT !.out = Append(s.out, Warn("no robot removal while animating"))]
       ELSE IF name \notin Keys(s.robots)
       THEN [s EXCEPT !.err = "KeyError"]
       ELSE [s EXCEPT !.robots = DictPop(s.robots, name)]

remove_robot(s, r, verbose) ==
    LET name == RobotName(r)
    IN IF verbose /\ s.animation # None
       THEN [s EXCEPT !.out = Append(s.out, Warn("no robot removal while animating"))]
       ELSE IF name \notin Keys(s.robots)
       THEN [s EXCEPT !.err = "KeyError"]
       ELSE remove_objects([s EXCEPT !.robots = DictPop(s.robots, name)],
                           RobotObjects(r), verbose)

\* the scene after a registry call that ended in state s
Commit(s) ==
    /\ objects' = s.objects
    /\ robots' = s.robots
    /\ vis' = s.vis
    /\ sent' = s.out
    /\ exc' = s.err
    /\ streak' = 0
    /\ lost' = 0
    /\ UNCHANGED <<camera_pose, camera_zoom, _animation, _animation_frame_counter,
                   q, pose, contexts, blocks>>


Void == <<>>

AddObject(o, verbose) ==
    /\ exc = "None"
    /\ Commit(add_object(Self, o, verbose))
    /\ added' = IF cap = None /\ added # Void
                THEN Some(added[1] \cup {ObjName(o)})
                ELSE Void
    /\ UNCHANGED cap

RemoveObject(o, verbose) ==
    /\ exc = "None"
    /\ Commit(remove_object(Self, o, verbose))
    /\ added' = IF cap = None /\ added # Void /\ ObjName(o) \in added[1]
                THEN Some(added[1] \ {ObjName(o)})
                ELSE Void
    /\ UNCHANGED cap

AddRobot(r, verbose) ==
    /\ exc = "None"
    /\ Commit(add_robot(Self, r, verbose))
    /\ added' = Void
    /\ UNCHANGED cap

RemoveRobot(r, verbose) ==
    /\ exc = "None"
    /\ Commit(remove_robot(Self, r, verbose))
    /\ added' = Void
    /\ UNCHANGED cap

(***************************************************************************)
(* Scene.render and its two helpers.                                       *)
(***************************************************************************)
CameraPath == "/Cameras/default"
ZoomPath == "/Cameras/default/rotated/<object>"

\* the tree the tick writes to: the frame opened by at_frame, or self.vis
render_target ==
    IF _animation # None THEN Frame(_animation_frame_counter[1]) ELSE Live

\* a variant that writes the zoom untyped in both modes
_update_camera_untyped(tgt) ==
    << SetTransform(tgt, CameraPath, camera_pose),
       SetProperty(tgt, ZoomPath, "zoom", None, camera_zoom) >>

_update_camera(tgt) ==
    << SetTransform(tgt, CameraPath, camera_pose),
       IF _animation # None
       THEN SetProperty(tgt, ZoomPath, "zoom", Some("number"), camera_zoom)
       ELSE SetProperty(tgt, ZoomPath, "zoom", None, camera_zoom) >>

RECURSIVE fk_all(_, _)
fk_all(p, rs) == IF rs = <<>> THEN p ELSE fk_all(fk(p, Head(rs)), Tail(rs))

\* a variant that writes the transforms before it calls fk()
_update_visualization_tree_stale(tgt) ==
    LET rs == Values(robots)
    IN [pose |-> fk_all(pose, rs),
        out |-> [i \in 1..Len(objects) |->
                      SetTransform(tgt, ObjName(objects[i].v), pose[objects[i].v])]
                \o [i \in 1..Len(rs) |-> FkCall(rs[i])]]

\* [pose: the poses after the fk() calls, out: the calls and writes in order]
_update_visualization_tree(tgt) ==
    LET rs == Values(robots)
        p1 == fk_all(pose, rs)
    IN [pose |-> p1,
        out |-> [i \in 1..Len(rs) |-> FkCall(rs[i])]
                \o [i \in 1..Len(objects) |->
                      SetTransform(tgt, ObjName(objects[i].v), p1[objects[i].v])]]

IsWrite(e) == e.op \in {"set_transform", "set_property"}

\* Animation.at_frame(vis, n): the writes made through the handle land in frame n
at_frame(clip, n, out) ==
    IF \E i \in 1..Len(out) : IsWrite(out[i]) /\ out[i].tgt = Frame(n)
    THEN [clip EXCEPT !.frames = Append(@, n)]
    ELSE clip

\* [out, pose, animation, counter] after one tick
render ==
    LET tgt == render_target
        t == _update_visualization_tree(tgt)
        out == _update_camera(tgt) \o t.out
    IN IF _animation # None
       THEN [out |-> out, pose |-> t.pose,
             animation |-> Some(at_frame(_animation[1], _animation_frame_counter[1], out)),
             counter |-> Some(_animation_frame_counter[1] + 1)]
       ELSE [out |-> out, pose |-> t.pose,
             animation |-> _animation, counter |-> _animation_frame_counter]

Render ==
    /\ exc = "None"
    /\ _animation_frame_counter # None => _animation_frame_counter[1] < MaxFrames
    /\ LET t == render
       IN /\ sent' = t.out
          /\ pose' = t.pose
          /\ _animation' = t.animation
          /\ _animation_frame_counter' = t.counter
    /\ cap' = IF cap = None THEN None ELSE Some(cap[1] + 1)
    /\ streak' = IF streak = 0 THEN 1 ELSE 2
    /\ UNCHANGED <<objects, robots, camera_pose, camera_zoom, vis, q, contexts,
                   blocks, exc, added>>
    /\ lost' = 0

(***************************************************************************)
(* Scene.animation and AnimationContext.                                   *)
(***************************************************************************)
\* the frame rates the caller asks for: the default of Scene.animation
Fps == {30}

AnimationContext(fps, name) == [fps |-> fps, name |-> name]

animation(fps) == AnimationContext(fps, "a")

AnimPath(name) == IF name = "a" THEN "animations/a" ELSE "animations/other"

\* a variant that installs the clip and the counter at once
Animation_eager(fps) ==
    /\ exc = "None"
    /\ contexts' = contexts \cup {animation(fps)}
    /\ sent' = <<>>
    /\ _animation' = Some([fps |-> fps, frames |-> <<>>])
    /\ _animation_frame_counter' = Some(0)
    /\ UNCHANGED <<objects, robots, camera_pose, camera_zoom, vis, q, pose,
                   blocks, exc, added, cap>>
    /\ streak' = 0
    /\ lost' = 0

Animation(fps) ==
    /\ exc = "None"
    /\ contexts' = contexts \cup {animation(fps)}
    /\ sent' = <<>>
    /\ UNCHANGED <<objects, robots, camera_pose, camera_zoom, _animation,
                   _animation_frame_counter, vis, q, pose, blocks, exc,
                   added, cap>>
    /\ streak' = 0
    /\ lost' = 0

\* a variant whose counter starts at one
AnimationContext_enter_from_one(c) ==
    [counter |-> Some(1),
     animation |-> Some([fps |-> c.fps, frames |-> <<>>])]

\* a variant that goes on with the clip of a capture already active
AnimationContext_enter_keep(c) ==
    IF _animation # None
    THEN [counter |-> _animation_frame_counter, animation |-> _animation]
    ELSE [counter |-> Some(0),
          animation |-> Some([fps |-> c.fps, frames |-> <<>>])]

\* __enter__: [counter, animation] installed on the scene
AnimationContext_enter(c) ==
    [counter |-> Some(0),
     animation |-> Some([fps |-> c.fps, frames |-> <<>>])]

Enter(c) ==
    /\ exc = "None"
    /\ Len(blocks) < MaxDepth
    /\ LET e == AnimationContext_enter(c)
       IN /\ _animation_frame_counter' = e.counter
          /\ _animation' = e.animation
    /\ blocks' = Append(blocks, c.name)
    /\ sent' = <<>>
    /\ cap' = Some(0)
    /\ lost' = IF cap # None THEN cap[1] ELSE 0
    /\ streak' = 0
    /\ UNCHANGED <<objects, robots, camera_pose, camera_zoom, vis, q, pose,
                   contexts, exc, added>>

\* a variant whose return value is true
AnimationContext_exit_suppress(name) ==
    [out |-> <<SetAnimation(AnimPath(name), _animation)>>,
     animation |-> None,
     counter |-> None,
     suppress |-> TRUE]

\* a variant that forgets to clear the counter
AnimationContext_exit_keeps_counter(name) ==
    [out |-> <<SetAnimation(AnimPath(name), _animation)>>,
     animation |-> None,
     counter |-> _animation_frame_counter,
     suppress |-> FALSE]

\* __exit__ of a context named name:
\* [out, animation, counter, suppress: the truth of the return value]
AnimationContext_exit(name) ==
    [out |-> <<SetAnimation(AnimPath(name), _animation)>>,
     animation |-> None,
     counter |-> None,
     suppress |-> FALSE]

\* the innermost with-block is left, normally or by the error in flight
Exit ==
    /\ blocks # <<>>
    /\ LET x == AnimationContext_exit(blocks[Len(blocks)])
       IN /\ sent' = x.out
          /\ _animation' = x.animation
          /\ _animation_frame_counter' = x.counter
          /\ exc' = IF x.suppress THEN "None" ELSE exc
    /\ blocks' = SubSeq(blocks, 1, Len(blocks) - 1)
    /\ cap' = None
    /\ lost' = 0
    /\ streak' = 0
    /\ UNCHANGED <<objects, robots, camera_pose, camera_zoom, vis, q, pose,
                   contexts, added>>

\* the caller handles the error in flight
Catch ==
    /\ exc # "None"
    /\ exc' = "None"
    /\ sent' = <<>>
    /\ UNCHANGED <<objects, robots, camera_pose, camera_zoom, _animation,
                   _animation_frame_counter, vis, q, pose, contexts, blocks, added, cap>>
    /\ streak' = 0
    /\ lost' = 0

\* the caller moves a robot to another configuration
SetConfig(r, v) ==
    /\ exc = "None"
    /\ RobotObjects(r) # <<>>
    /\ q[r] # v
    /\ q' = [q EXCEPT ![r] = v]
    /\ sent' = <<>>
    /\ UNCHANGED <<objects, robots, camera_pose, camera_zoom, _animation,
                   _animation_frame_counter, vis, pose, contexts, blocks, exc, added,
                   cap>>
    /\ streak' = 0
    /\ lost' = 0

(***************************************************************************)
(* The camera accessors: views onto blocks of camera_pose.                 *)
(***************************************************************************)
\* camera_pose[:3, 3]
camera_pos(m) == [i \in 1..3 |-> m[i][4]]

\* a variant that writes the bottom row instead of the last column
set_camera_pos_row(m, p) ==
    [i \in 1..4 |-> [j \in 1..4 |-> IF i = 4 /\ j <= 3 THEN p[j] ELSE m[i][j]]]

\* camera_pose[:3, 3] = p
set_camera_pos(m, p) ==
    [i \in 1..4 |-> [j \in 1..4 |-> IF i <= 3 /\ j = 4 THEN p[i] ELSE m[i][j]]]

\* camera_pose[:3, :3]
camera_rot(m) == [i \in 1..3 |-> [j \in 1..3 |-> m[i][j]]]

\* camera_pose[:3, :3] = r
set_camera_rot(m, r) ==
    [i \in 1..4 |-> [j \in 1..4 |-> IF i <= 3 /\ j <= 3 THEN r[i][j] ELSE m[i][j]]]

\* the positions and rotations the caller assigns
Coords == {-1, 0, 2}

PosInputs == {<<x, y, z>> : x \in Coords, y \in Coords, z \in Coords}

RotInputs ==
    { << <<1, 0, 0>>, <<0, 1, 0>>, <<0, 0, 1>> >>,
      << <<0, -1, 0>>, <<1, 0, 0>>, <<0, 0, 1>> >>,
      << <<1, 0, 0>>, <<0, 0, -1>>, <<0, 1, 0>> >>,
      << <<0, 0, 1>>, <<0, 1, 0>>, <<-1, 0, 0>> >> }

SetCameraPos(p) ==
    /\ exc = "None"
    /\ camera_pose' = set_camera_pos(camera_pose, p)
    /\ sent' = <<>>
    /\ UNCHANGED <<objects, robots, camera_zoom, _animation,
                   _animation_frame_counter, vis, q, pose, contexts, blocks, exc,
                   added, cap>>
    /\ streak' = 0
    /\ lost' = 0

SetCameraRot(r) ==
    /\ exc = "None"
    /\ camera_pose' = set_camera_rot(camera_pose, r)
    /\ sent' = <<>>
    /\ UNCHANGED <<objects, robots, camera_zoom, _animation,
                   _animation_frame_counter, vis, q, pose, contexts, blocks, exc,
                   added, cap>>
    /\ streak' = 0
    /\ lost' = 0

Next ==
    \/ \E o \in ObjIds, verbose \in BOOLEAN : AddObject(o, verbose)
    \/ \E o \in ObjIds, verbose \in BOOLEAN : RemoveObject(o, verbose)
    \/ \E r \in RobotIds, verbose \in BOOLEAN : AddRobot(r, verbose)
    \/ \E r \in RobotIds, verbose \in BOOLEAN : RemoveRobot(r, verbose)
    \/ Render
    \/ \E fps \in Fps : Animation(fps)
    \/ \E c \in contexts : Enter(c)
    \/ Exit
    \/ Catch
    \/ \E r \in RobotIds, v \in Configs : SetConfig(r, v)

Spec == Init /\ [][Next]_vars

\* the camera on its own: the accessors and the tick that pushes the pose
NextCamera ==
    \/ \E p \in PosInputs : SetCameraPos(p)
    \/ \E r \in RotInputs : SetCameraRot(r)
    \/ Render

SpecCamera == Init /\ [][NextCamera]_vars


(***************************************************************************)
(* Vocabulary of the properties.                                           *)
(***************************************************************************)
NoDelete(out) == \A i \in 1..Len(out) : out[i].op # "delete"

IsRenderBatch(out) == \E i \in 1..Len(out) : IsWrite(out[i])

IsCameraWrite(e) == IsWrite(e) /\ e.path \in {CameraPath, ZoomPath}

IsObjectWrite(e) == e.op = "set_transform" /\ e.path \in Names

IsFk(e) == e.op = "fk"

FrameIndices(n) == [i \in 1..n |-> i - 1]

ChildNames(r) == {ObjName(o) : o \in Range(RobotObjects(r))}

Entries(d, key) == {i \in 1..Len(d) : d[i].k = key}

\* a with-block is left in this step
ExitStep == Len(blocks') < Len(blocks)

\* a with-block is entered in this step
EnterStep == Len(blocks') > Len(blocks)

(***************************************************************************)
(* C1. A capture entered in live mode and left after N render() calls      *)
(* publishes a clip of exactly N frames, written at the indices 0..N-1 in  *)
(* call order: the k-th render of the capture writes frame k-1. A render   *)
(* called after the exit writes to the live tree and to no frame.          *)
(***************************************************************************)
C1_ClipSoFar ==
    cap # None =>
        /\ _animation # None
        /\ _animation[1].frames = FrameIndices(cap[1])

C1_RenderStep ==
    Render =>
        IF cap # None
        THEN \A i \in 1..Len(sent') :
                IsWrite(sent'[i]) => sent'[i].tgt = Frame(cap[1])
        ELSE /\ \A i \in 1..Len(sent') : IsWrite(sent'[i]) => sent'[i].tgt = Live
             /\ _animation' = None

C1_PublishStep ==
    (ExitStep /\ cap # None) =>
        /\ Len(sent') = 1
        /\ sent'[1].op = "set_animation"
        /\ sent'[1].clip # None
        /\ sent'[1].clip[1].frames = FrameIndices(cap[1])

C1_CaptureFrames ==
    /\ []C1_ClipSoFar
    /\ [][C1_RenderStep /\ C1_PublishStep]_vars

\* a clip of MaxFrames frames has just been published
C1_Witness ==
    /\ Len(sent) = 1
    /\ sent[1].op = "set_animation"
    /\ sent[1].clip # None
    /\ Len(sent[1].clip[1].frames) = MaxFrames
    /\ _animation = None

(***************************************************************************)
(* C2. Leaving the with-block, normally or by an error raised inside it,   *)
(* publishes the accumulated clip at animations/<name>, then clears the    *)
(* clip and the frame counter; the error in flight is not suppressed.      *)
(***************************************************************************)
C2_ExitPublishesAndClears ==
    [][ExitStep =>
          /\ sent' = <<SetAnimation(AnimPath(blocks[Len(blocks)]), _animation)>>
          /\ _animation' = None
          /\ _animation_frame_counter' = None
          /\ exc' = exc]_vars

\* a block was left by an error: the clip was published and the error is still in flight
C2_Witness ==
    /\ exc = "KeyError"
    /\ Len(sent) = 1
    /\ sent[1].op = "set_animation"
    /\ sent[1].clip # None
    /\ sent[1].clip[1].frames # <<>>
    /\ _animation = None
    /\ blocks = <<>>

(***************************************************************************)
(* C3. Between calls the clip and the frame counter are both set or both   *)
(* unset, also after a call that ended in an error.                        *)
(***************************************************************************)
C3_BothOrNeither == (_animation = None) <=> (_animation_frame_counter = None)

\* a call failed inside an open capture
C3_Witness ==
    /\ exc = "KeyError"
    /\ _animation # None
    /\ _animation_frame_counter # None

(***************************************************************************)
(* C4. While a capture is active no call removes a name from objects or    *)
(* robots and no call issues a delete write.                               *)
(***************************************************************************)
C4_NoRemovalInCapture ==
    [][_animation # None =>
          /\ Keys(objects) \subseteq Keys(objects')
          /\ Keys(robots) \subseteq Keys(robots')
          /\ NoDelete(sent')]_vars

(***************************************************************************)
(* C5. remove_object(obj, verbose=True) during a capture returns without   *)
(* an error, leaves objects unchanged and issues no delete write; the exit *)
(* leaves objects as they are and the scene in live mode, where            *)
(* remove_object(obj) on a registered object removes its name and issues   *)
(* the delete write.                                                       *)
(***************************************************************************)
C5_RefusedThenRemovable ==
    [][/\ \A o \in ObjIds :
             (RemoveObject(o, TRUE) /\ _animation # None) =>
                 /\ exc' = "None"
                 /\ objects' = objects
                 /\ NoDelete(sent')
       /\ ExitStep => (objects' = objects /\ _animation' = None)
       /\ \A o \in ObjIds :
             (RemoveObject(o, TRUE) /\ _animation = None
                 /\ ObjName(o) \in Keys(objects)) =>
                 /\ exc' = "None"
                 /\ Keys(objects') = Keys(objects) \ {ObjName(o)}
                 /\ sent' = <<Delete(ObjName(o))>>]_vars

\* a removal has just been refused in a capture, the object still registered
C5_Witness ==
    /\ _animation # None
    /\ sent = <<Warn("no object removal while animating")>>
    /\ objects # <<>>
    /\ exc = "None"

(***************************************************************************)
(* C6. After add_object and remove_object calls made in live mode, each    *)
(* remove on a name present, the keys of objects are the names added and   *)
(* not removed afterwards; add_object of a name already present raises no  *)
(* error and leaves exactly one entry under the name, holding the new      *)
(* object.                                                                 *)
(***************************************************************************)
C6_KeysAreAdded == added # Void => Keys(objects) = added[1]

C6_AddStep ==
    \A o \in ObjIds, verbose \in BOOLEAN :
        AddObject(o, verbose) =>
            /\ exc' = "None"
            /\ Cardinality(Entries(objects', ObjName(o))) = 1
            /\ Lookup(objects', ObjName(o)) = o

C6_AddRemove == []C6_KeysAreAdded /\ [][C6_AddStep]_vars

\* o2 has just replaced o1 under the name they share, another name registered too
C6_Witness ==
    /\ added = Some({"box", "arm/l1"})
    /\ sent = <<Warn("object replaced"), SetObject("box", "o2")>>
    /\ Lookup(objects, "box") = "o2"

(***************************************************************************)
(* C7. add_robot(r) registers r under its name and adds the names of its   *)
(* children to the keys of objects; remove_robot(r) in live mode, r and    *)
(* its children registered, unregisters r and removes exactly the          *)
(* children's names.                                                       *)
(***************************************************************************)
C7_RobotChildren ==
    [][\A r \in RobotIds, verbose \in BOOLEAN :
          /\ AddRobot(r, verbose) =>
                /\ RobotName(r) \in Keys(robots')
                /\ Lookup(robots', RobotName(r)) = r
                /\ Keys(objects') = Keys(objects) \cup ChildNames(r)
          /\ (/\ RemoveRobot(r, verbose)
              /\ _animation = None
              /\ RobotName(r) \in Keys(robots)
              /\ ChildNames(r) \subseteq Keys(objects)) =>
                /\ exc' = "None"
                /\ RobotName(r) \notin Keys(robots')
                /\ Keys(objects') = Keys(objects) \ ChildNames(r)]_vars

\* the arm has just been removed: its two links are gone and the box is left
C7_Witness ==
    /\ sent = <<Delete("arm/l1"), Delete("arm/l2")>>
    /\ Keys(objects) = {"box"}
    /\ "arm" \notin Keys(robots)

(***************************************************************************)
(* C8. A tick writes the camera transform, the camera zoom and every       *)
(* object's transform to one place, chosen by the mode it starts in: the   *)
(* current frame with the zoom typed "number" in a capture, the live tree  *)
(* with the zoom untyped otherwise.                                        *)
(***************************************************************************)
WritePaths(out) == {out[i].path : i \in {j \in 1..Len(out) : IsWrite(out[j])}}

C8_RoutedByMode ==
    [][Render =>
          /\ WritePaths(sent') = {CameraPath, ZoomPath} \cup Keys(objects)
          /\ \A i \in 1..Len(sent') :
                IsWrite(sent'[i]) =>
                    /\ sent'[i].tgt =
                          IF _animation # None
                          THEN Frame(_animation_frame_counter[1])
                          ELSE Live
                    /\ sent'[i].op = "set_property" =>
                          sent'[i].type =
                              IF _animation # None THEN Some("number") ELSE None]_vars

\* the second frame of a capture has just been written, with objects in the scene
C8_Witness ==
    /\ Len(sent) > 2
    /\ sent[2].op = "set_property"
    /\ sent[2].tgt = Frame(1)
    /\ sent[2].type = Some("number")
    /\ \E i \in 1..Len(sent) : IsObjectWrite(sent[i]) /\ sent[i].tgt = Frame(1)

(***************************************************************************)
(* C9. The order within a tick. As claimed: fk() on every robot, then the  *)
(* object transforms, then the camera pose and zoom.                       *)
(***************************************************************************)
C9_CameraLast ==
    \A i \in 1..Len(sent), j \in 1..Len(sent) :
        /\ (IsFk(sent[i]) /\ IsObjectWrite(sent[j])) => i < j
        /\ (IsObjectWrite(sent[i]) /\ IsCameraWrite(sent[j])) => i < j

(***************************************************************************)
(* C9, amended. The camera pose and zoom are pushed first, then fk() is    *)
(* invoked on every registered robot, then each object's current pose is   *)
(* pushed at its name: every fk() call precedes every object transform     *)
(* write, and the camera writes precede both.                              *)
(***************************************************************************)
C9_CameraFirst ==
    IsRenderBatch(sent) =>
        LET nr == Len(robots)
            no == Len(objects)
        IN /\ Len(sent) = 2 + nr + no
           /\ sent[1].op = "set_transform" /\ sent[1].path = CameraPath
           /\ sent[2].op = "set_property" /\ sent[2].path = ZoomPath
           /\ \A i \in 1..nr : sent[2 + i] = FkCall(robots[i].v)
           /\ \A i \in 1..no :
                 /\ IsObjectWrite(sent[2 + nr + i])
                 /\ sent[2 + nr + i].path = objects[i].k
                 /\ sent[2 + nr + i].val = pose[objects[i].v]
           /\ \A r \in Range(Values(robots)) :
                 \A o \in Range(RobotObjects(r)) : pose[o] = q[r]

\* a tick of a scene with two robots and three objects, the arm moved
C9_Witness ==
    /\ IsRenderBatch(sent)
    /\ Len(robots) = 2
    /\ Len(objects) = 3
    /\ q["r1"] = 1

(***************************************************************************)
(* C10. camera_pos = p is read back as p and leaves the rotation block and *)
(* the bottom row alone; camera_rot = r is read back as r and leaves the   *)
(* translation block and the bottom row alone; render() pushes the one     *)
(* camera_pose both write to.                                              *)
(***************************************************************************)
C10_CameraBlocks ==
    /\ \A p \in PosInputs :
          LET m == set_camera_pos(camera_pose, p)
          IN /\ camera_pos(m) = p
             /\ camera_rot(m) = camera_rot(camera_pose)
             /\ m[4] = camera_pose[4]
    /\ \A r \in RotInputs :
          LET m == set_camera_rot(camera_pose, r)
          IN /\ camera_rot(m) = r
             /\ camera_pos(m) = camera_pos(camera_pose)
             /\ m[4] = camera_pose[4]
    /\ IsRenderBatch(sent) =>
          /\ sent[1].path = CameraPath
          /\ sent[1].val = camera_pose

\* a tick has pushed a pose whose position and rotation were both assigned
C10_Witness ==
    /\ IsRenderBatch(sent)
    /\ camera_pos(camera_pose) = <<2, -1, 2>>
    /\ camera_rot(camera_pose) = << <<0, -1, 0>>, <<1, 0, 0>>, <<0, 0, 1>> >>


(***************************************************************************)
(* C11. animation(fps) only returns a new context bound to the scene: it   *)
(* changes no Scene state and issues no write, and the scene stays in live *)
(* mode; the scene switches to capture mode only on a context entry.       *)
(***************************************************************************)
C11_FactoryIsPure ==
    [][/\ \A fps \in Fps :
             Animation(fps) =>
                 /\ animation(fps) \in contexts'
                 /\ sent' = <<>>
                 /\ exc' = exc
                 /\ UNCHANGED <<objects, robots, camera_pose, camera_zoom,
                                _animation, _animation_frame_counter, vis, q,
                                pose, blocks>>
       /\ (_animation = None /\ _animation' # None) => EnterStep]_vars

\* a context was made and never entered: the populated scene is in live mode
C11_Witness ==
    /\ contexts = {animation(30)}
    /\ blocks = <<>>
    /\ _animation = None
    /\ _animation_frame_counter = None
    /\ sent = <<>>
    /\ objects # <<>>

(***************************************************************************)
(* C12. An entry made while a capture is active replaces the clip by a     *)
(* fresh empty one and restarts the counter at 0; what is published from   *)
(* then on holds only the frames rendered since the latest entry, and      *)
(* nothing when the latest capture was already published: the frames of    *)
(* the first capture are in no clip published afterwards.                  *)
(***************************************************************************)
C12_JustReplaced ==
    lost > 0 =>
        /\ Len(blocks) >= 2
        /\ _animation # None
        /\ _animation[1].frames = <<>>
        /\ _animation_frame_counter = Some(0)

C12_EntryStep ==
    (EnterStep /\ _animation # None) =>
        /\ _animation' # None
        /\ _animation'[1].frames = <<>>
        /\ _animation_frame_counter' = Some(0)

C12_LaterPublish ==
    ExitStep =>
        /\ Len(sent') = 1
        /\ sent'[1].op = "set_animation"
        /\ IF cap = None
           THEN sent'[1].clip = None
           ELSE /\ sent'[1].clip # None
                /\ sent'[1].clip[1].frames = FrameIndices(cap[1])

C12_FirstCaptureLost ==
    /\ []C12_JustReplaced
    /\ [][C12_EntryStep /\ C12_LaterPublish]_vars

\* a second entry has just replaced a clip that held MaxFrames frames
C12_Witness ==
    /\ lost = MaxFrames
    /\ Len(blocks) = 2
    /\ _animation # None
    /\ _animation[1].frames = <<>>


(***************************************************************************)
(* C13. A render() called right after a render(), nothing in between,      *)
(* emits the same batch: the same fk() calls and the same writes, at the   *)
(* same paths, in the same order, with the same values. In a capture the   *)
(* two batches differ in the frame they are written at, the next one.      *)
(***************************************************************************)
Untargeted(out) ==
    [i \in 1..Len(out) |->
        IF IsWrite(out[i]) THEN [out[i] EXCEPT !.tgt = Live] ELSE out[i]]

C13_SameBatchTwice ==
    [][(Render /\ streak >= 1) =>
          /\ Len(sent') = Len(sent)
          /\ Untargeted(sent') = Untargeted(sent)
          /\ sent'[1].tgt =
                IF _animation # None THEN Frame(sent[1].tgt[2] + 1) ELSE Live]_vars

\* two ticks in a row in a capture, of a scene with the moved arm and the box
C13_Witness ==
    /\ streak = 2
    /\ _animation # None
    /\ Len(objects) = 3
    /\ "arm" \in Keys(robots)
    /\ q["r1"] = 1
    /\ IsRenderBatch(sent)

(***************************************************************************)
(* C14. The names whose node was created by a set_object write and not     *)
(* deleted since are the keys of objects, in every state, also after a     *)
(* call that ended in an error.                                            *)
(***************************************************************************)
C14_TreeMirrorsRegistry == {n \in Names : vis[n] # None} = Keys(objects)

\* remove_robot failed at its second child, after it deleted the first
C14_Witness ==
    /\ exc = "KeyError"
    /\ sent = <<Delete("arm/l1")>>
    /\ Keys(objects) = {"box"}


(***************************************************************************)
(* C15. remove_robot(r) is all or nothing: a call either unregisters r and *)
(* leaves none of r's children in objects, or leaves robots and objects as *)
(* they were.                                                              *)
(***************************************************************************)
C15_AllOrNothing ==
    [][\A r \in RobotIds, verbose \in BOOLEAN :
          RemoveRobot(r, verbose) =>
              \/ /\ RobotName(r) \notin Keys(robots')
                 /\ Keys(objects') \cap ChildNames(r) = {}
              \/ /\ robots' = robots
                 /\ objects' = objects]_vars

(***************************************************************************)
(* C16. remove_object(obj) in live mode, for a name that is not a key of   *)
(* objects, ends in an error raised to the caller and changes nothing: the *)
(* registry and the remote tree are as before, no delete write is issued.  *)
(***************************************************************************)
C16_MissingNameRaises ==
    [][\A o \in ObjIds, verbose \in BOOLEAN :
          (/\ RemoveObject(o, verbose)
           /\ _animation = None
           /\ ObjName(o) \notin Keys(objects)) =>
              /\ exc' = "KeyError"
              /\ objects' = objects
              /\ robots' = robots
              /\ vis' = vis
              /\ sent' = <<>>]_vars

\* a call has just failed in live mode, emitting nothing, with both robots
\* registered: it was a remove_object
C16_Witness ==
    /\ exc = "KeyError"
    /\ sent = <<>>
    /\ _animation = None
    /\ blocks = <<>>
    /\ Len(robots) = 2
    /\ objects # <<>>

====
